---- MODULE Spec2Model ----
(***************************************************************************)
(* A model of procsmaps (src/lib.rs): the parser of /proc/[pid]/smaps.     *)
(*                                                                         *)
(* Text is a sequence of characters, each character a one-element string   *)
(* ("<U+0663>" stands for the single character ARABIC-INDIC DIGIT THREE).  *)
(* A u64 is four 16-bit limbs, least significant first, so that every      *)
(* 64-bit operation keeps its width.  An Option is <<>> (None) or <<v>>    *)
(* (Some(v)).                                                              *)
(***************************************************************************)
EXTENDS Integers, Sequences, FiniteSets, TLC

VARIABLES
    overflow_checks,  \* the build profile: TRUE when integer overflow panics
    raw,              \* from_str: the input text
    lines,            \* from_str: raw split on "\n"
    i,                \* from_str: index of the current line (0-based, as in the code)
    smap_lines,       \* from_str: the detail block being collected
    map,              \* from_str: the mapping of the header being processed
    res,              \* from_str: the records pushed so far
    pc,               \* from_str: position in the function
    ret,              \* from_str: the value returned, <<>> while none is
    fl_mapping,       \* SMap::from_lines: argument mapping
    fl_lines,         \* SMap::from_lines: argument lines
    fl_k,             \* SMap::from_lines: number of lines consumed by the for loop
    fl_res,           \* SMap::from_lines: the record under construction
    fl_pc,            \* SMap::from_lines: position in the function
    vf_s,             \* VmFlags::from_str: argument
    vf_tokens,        \* VmFlags::from_str: s.split(" ")
    vf_k,             \* VmFlags::from_str: number of tokens consumed
    vf_flags,         \* VmFlags::from_str: the flag set under construction
    vf_pc,            \* VmFlags::from_str: position in the function
    m_fields,         \* Mapping::from_str: the pieces the argument was written from
    m_s,              \* Mapping::from_str: argument
    m_out,            \* Mapping::from_str: the value returned
    m_pc              \* Mapping::from_str: position in the function

vars ==
    <<overflow_checks, raw, lines, i, smap_lines, map, res, pc, ret,
      fl_mapping, fl_lines, fl_k, fl_res, fl_pc,
      vf_s, vf_tokens, vf_k, vf_flags, vf_pc,
      m_fields, m_s, m_out, m_pc>>

from_str_vars == <<raw, lines, i, smap_lines, map, res, pc, ret>>
from_lines_vars == <<fl_mapping, fl_lines, fl_k, fl_res, fl_pc>>
vmflags_vars == <<vf_s, vf_tokens, vf_k, vf_flags, vf_pc>>
mapping_vars == <<m_fields, m_s, m_out, m_pc>>

----------------------------------------------------------------------------
(* Option *)

None == <<>>
Some(v) == <<v>>
IsSome(o) == o # <<>>
Unwrap(o) == o[1]

----------------------------------------------------------------------------
(* str: the library operations the parser uses *)

Whitespace == {" ", "\t", "\r", "\n"}

AsciiDigits == <<"0", "1", "2", "3", "4", "5", "6", "7", "8", "9">>
HexLetters == <<"a", "b", "c", "d", "e", "f">>
HexLettersUpper == <<"A", "B", "C", "D", "E", "F">>

\* The position (1-based) of c in the sequence t, 0 when c is not in it.
IndexOf(c, t) ==
    IF \E j \in 1..Len(t) : t[j] = c
    THEN CHOOSE j \in 1..Len(t) : t[j] = c
    ELSE 0

\* char::is_digit(10)
is_digit(c) == IndexOf(c, AsciiDigits) # 0

\* char::to_digit(radix) for radix 10 and 16: -1 stands for None
to_digit(c, radix) ==
    IF IndexOf(c, AsciiDigits) # 0 THEN IndexOf(c, AsciiDigits) - 1
    ELSE IF radix = 16 /\ IndexOf(c, HexLetters) # 0 THEN 9 + IndexOf(c, HexLetters)
    ELSE IF radix = 16 /\ IndexOf(c, HexLettersUpper) # 0 THEN 9 + IndexOf(c, HexLettersUpper)
    ELSE -1

\* str::trim_start, str::trim_end
trim_start(s) ==
    LET first == CHOOSE q \in 1..(Len(s) + 1) :
                     /\ \A r \in 1..(q - 1) : s[r] \in Whitespace
                     /\ (q = Len(s) + 1 \/ s[q] \notin Whitespace)
    IN  SubSeq(s, first, Len(s))

trim_end(s) ==
    LET last == CHOOSE q \in 0..Len(s) :
                    /\ \A r \in (q + 1)..Len(s) : s[r] \in Whitespace
                    /\ (q = 0 \/ s[q] \notin Whitespace)
    IN  SubSeq(s, 1, last)

\* str::trim
trim(s) == trim_end(trim_start(s))

\* str::ends_with
ends_with(s, suffix) ==
    /\ Len(s) >= Len(suffix)
    /\ SubSeq(s, Len(s) - Len(suffix) + 1, Len(s)) = suffix

\* str::split(sep) for a one-character separator: the pieces between the
\* occurrences of sep, one more than there are occurrences
split(s, sep) ==
    LET seps == {j \in 1..Len(s) : s[j] = sep}
        n == Cardinality(seps)
        nth(k) == CHOOSE j \in seps : Cardinality({x \in seps : x < j}) = k - 1
        first(k) == IF k = 1 THEN 1 ELSE nth(k - 1) + 1
        last(k) == IF k = n + 1 THEN Len(s) ELSE nth(k) - 1
    IN  [k \in 1..(n + 1) |-> SubSeq(s, first(k), last(k))]

----------------------------------------------------------------------------
(* u64 *)

Base == 256 * 256

U64Zero == <<0, 0, 0, 0>>

\* x * m + a for a u64 x and small m, a: the low 64 bits and what overflowed
MulAdd(x, m, a) ==
    LET t0 == x[1] * m + a
        t1 == x[2] * m + (t0 \div Base)
        t2 == x[3] * m + (t1 \div Base)
        t3 == x[4] * m + (t2 \div Base)
    IN  [val |-> <<t0 % Base, t1 % Base, t2 % Base, t3 % Base>>,
         carry |-> t3 \div Base]

\* The digit loop of from_str_radix: checked_mul by the radix, checked_add of the digit
RECURSIVE RadixLoop(_, _, _)
RadixLoop(digits, radix, acc) ==
    IF digits = <<>> THEN Some(acc)
    ELSE LET d == to_digit(Head(digits), radix)
             r == MulAdd(acc, radix, d)
         IN  IF d = -1 THEN None
             ELSE IF r.carry # 0 THEN None
             ELSE RadixLoop(Tail(digits), radix, r.val)

\* u64::from_str_radix (and str::parse::<u64> for radix 10): an optional "+",
\* then at least one digit; an unsigned type takes no "-"
u64_from_str_radix(s, radix) ==
    LET digits == IF s # <<>> /\ Head(s) = "+" THEN Tail(s) ELSE s
    IN  IF digits = <<>> THEN None ELSE RadixLoop(digits, radix, U64Zero)

----------------------------------------------------------------------------
(* match: the arm of a match on a string.  arms is a sequence of             *)
(* <<pattern, field>>; "_" stands for the wildcard arm.                      *)

MatchArm(arms, s) ==
    IF \E j \in 1..Len(arms) : arms[j][1] = s
    THEN arms[CHOOSE j \in 1..Len(arms) : arms[j][1] = s][2]
    ELSE "_"

ArmFields(arms) == {arms[j][2] : j \in 1..Len(arms)}

----------------------------------------------------------------------------
(* Permissions *)

PermissionsDefault ==
    [read |-> FALSE, write |-> FALSE, execute |-> FALSE,
     shared |-> FALSE, private |-> FALSE]

PermissionsArm(perms, c) ==
    IF c = "r" THEN [perms EXCEPT !.read = TRUE]
    ELSE IF c = "w" THEN [perms EXCEPT !.write = TRUE]
    ELSE IF c = "x" THEN [perms EXCEPT !.execute = TRUE]
    ELSE IF c = "s" THEN [perms EXCEPT !.shared = TRUE]
    ELSE IF c = "p" THEN [perms EXCEPT !.private = TRUE]
    ELSE perms

RECURSIVE PermissionsLoop(_, _)
PermissionsLoop(s, perms) ==
    IF s = <<>> THEN perms
    ELSE PermissionsLoop(Tail(s), PermissionsArm(perms, Head(s)))

Permissions_from_str(s) == PermissionsLoop(s, PermissionsDefault)

----------------------------------------------------------------------------
(* VmFlags *)

VmFlagArms ==
    <<<<<<"r", "d">>, "rd">>, <<<<"w", "r">>, "wr">>, <<<<"e", "x">>, "ex">>, <<<<"s", "h">>, "sh">>,
      <<<<"m", "r">>, "mr">>, <<<<"m", "w">>, "mw">>, <<<<"m", "e">>, "me">>, <<<<"m", "s">>, "ms">>,
      <<<<"g", "d">>, "gd">>, <<<<"p", "f">>, "pf">>, <<<<"d", "w">>, "dw">>, <<<<"l", "o">>, "lo">>,
      <<<<"i", "o">>, "io">>, <<<<"s", "r">>, "sr">>, <<<<"r", "r">>, "rr">>, <<<<"d", "c">>, "dc">>,
      <<<<"d", "e">>, "de">>, <<<<"a", "c">>, "ac">>, <<<<"n", "r">>, "nr">>, <<<<"h", "t">>, "ht">>,
      <<<<"s", "f">>, "sf">>, <<<<"n", "l">>, "nl">>, <<<<"a", "r">>, "ar">>, <<<<"w", "f">>, "wf">>,
      <<<<"d", "d">>, "dd">>, <<<<"s", "d">>, "sd">>, <<<<"m", "m">>, "mm">>, <<<<"h", "g">>, "hg">>,
      <<<<"n", "h">>, "nh">>, <<<<"m", "g">>, "mg">>, <<<<"u", "m">>, "um">>, <<<<"u", "w">>, "uw">>>>

VmFlagNames == ArmFields(VmFlagArms)

VmFlagsDefault == [f \in VmFlagNames |-> FALSE]

\* VmFlagsArm, but a known token flips its flag
VmFlagsArm_toggle(flags, flag) ==
    LET f == MatchArm(VmFlagArms, flag)
    IN  IF f = "_" THEN flags ELSE [flags EXCEPT ![f] = ~flags[f]]

\* One iteration of the for loop: the match on the token
VmFlagsArm(flags, flag) ==
    LET f == MatchArm(VmFlagArms, flag)
    IN  IF f = "_" THEN flags ELSE [flags EXCEPT ![f] = TRUE]

RECURSIVE VmFlagsLoop(_, _)
VmFlagsLoop(tokens, flags) ==
    IF tokens = <<>> THEN flags
    ELSE VmFlagsLoop(Tail(tokens), VmFlagsArm(flags, Head(tokens)))

VmFlags_from_str(s) == VmFlagsLoop(split(s, " "), VmFlagsDefault)

----------------------------------------------------------------------------
\* RE: the header pattern, anchored at both ends:
\*   (hex+) "-" (hex+) \s+ ([rwsxp-]+) \s+ (hex+) \s+ (hex+) ":" (hex+) \s+ (\d+)
\* and then, optionally, \s+ and a last group of any characters but "\n";
\* hex is [0-9a-f].

\* \d is Unicode-aware in the regex crate: any decimal digit, not only 0-9;
\* \s is any Unicode whitespace, as for str::trim
InClass(class, c) ==
    IF class = "hex" THEN IndexOf(c, AsciiDigits) # 0 \/ IndexOf(c, HexLetters) # 0
    ELSE IF class = "permissions" THEN c \in {"r", "w", "s", "x", "p", "-"}
    ELSE IF class = "\\s" THEN c \in Whitespace
    ELSE IF class = "\\d" THEN IndexOf(c, AsciiDigits) # 0 \/ c = "<U+0663>"
    ELSE c # "\n"

Group(class) == [kind |-> "plus", class |-> class, capture |-> TRUE]
Plus(class) == [kind |-> "plus", class |-> class, capture |-> FALSE]
Lit(c) == [kind |-> "lit", class |-> c, capture |-> FALSE]

\* The pattern up to the inode
RE ==
    <<Group("hex"), Lit("-"), Group("hex"), Plus("\\s"), Group("permissions"),
      Plus("\\s"), Group("hex"), Plus("\\s"), Group("hex"), Lit(":"), Group("hex"),
      Plus("\\s"), Group("\\d")>>

\* A greedy class+ from position p of s: the position after its last
\* character (p itself when the class matches nothing there)
SpanEnd(s, p, class) ==
    CHOOSE q \in p..(Len(s) + 1) :
        /\ \A r \in p..(q - 1) : InClass(class, s[r])
        /\ (q = Len(s) + 1 \/ ~InClass(class, s[q]))

\* The items of the pattern from the k-th on, matched at position p of s.
\* Every class+ is followed by a character outside its class, so the greedy
\* match is the only one.
RECURSIVE MatchItems(_, _, _, _, _)
MatchPlus(items, k, s, p, q, groups) ==
    IF q = p THEN None
    ELSE MatchItems(items, k + 1, s, q,
                    IF items[k].capture THEN Append(groups, SubSeq(s, p, q - 1))
                    ELSE groups)

MatchItems(items, k, s, p, groups) ==
    IF k > Len(items) THEN Some([pos |-> p, groups |-> groups])
    ELSE IF items[k].kind = "lit"
         THEN IF p <= Len(s) /\ s[p] = items[k].class
              THEN MatchItems(items, k + 1, s, p + 1, groups)
              ELSE None
    ELSE MatchPlus(items, k, s, p, SpanEnd(s, p, items[k].class), groups)

\* The optional end of the pattern, from position p (after the inode) on,
\* w being the end of the whitespace there
MatchPathname(s, p, w, groups) ==
    IF p = Len(s) + 1 THEN Some(Append(groups, None))
    ELSE IF w > p /\ \A r \in w..Len(s) : InClass(".", s[r])
         THEN Some(Append(groups, Some(SubSeq(s, w, Len(s)))))
    ELSE None

MatchEnd(s, m) ==
    IF m = None THEN None
    ELSE MatchPathname(s, Unwrap(m).pos, SpanEnd(s, Unwrap(m).pos, "\\s"), Unwrap(m).groups)

\* RE.captures: the eight groups, the last an Option; None when s does not match
RE_captures(s) == MatchEnd(s, MatchItems(RE, 1, s, 1, <<>>))

----------------------------------------------------------------------------
(* Mapping *)

MappingDefault ==
    [start |-> U64Zero, end |-> U64Zero, perms |-> PermissionsDefault,
     offset |-> U64Zero, device |-> [major |-> U64Zero, minor |-> U64Zero],
     inode |-> U64Zero, pathname |-> None]

\* usize_from_str_radix, but the radix is 10
usize_from_str_radix_decimal(s, radix) == u64_from_str_radix(s, 10)

\* usize::from_str_radix on a target whose usize is 64 bits wide
usize_from_str_radix(s, radix) == u64_from_str_radix(s, radix)

\* The ? of each conversion, then Some(Mapping { .. })
MappingOf(start, end, perms, offset, dev_major, dev_minor, inode, pathname) ==
    IF None \in {start, end, offset, dev_major, dev_minor, inode} THEN None
    ELSE Some([start |-> Unwrap(start), end |-> Unwrap(end), perms |-> perms,
               offset |-> Unwrap(offset),
               device |-> [major |-> Unwrap(dev_major), minor |-> Unwrap(dev_minor)],
               inode |-> Unwrap(inode), pathname |-> pathname])

MappingOfCaptures(caps) ==
    IF caps = None THEN None
    ELSE MappingOf(u64_from_str_radix(Unwrap(caps)[1], 16),
                   u64_from_str_radix(Unwrap(caps)[2], 16),
                   Permissions_from_str(Unwrap(caps)[3]),
                   usize_from_str_radix(Unwrap(caps)[4], 16),
                   u64_from_str_radix(Unwrap(caps)[5], 16),
                   u64_from_str_radix(Unwrap(caps)[6], 16),
                   u64_from_str_radix(Unwrap(caps)[7], 10),
                   Unwrap(caps)[8])

Mapping_from_str(s) == MappingOfCaptures(RE_captures(trim(s)))

----------------
(* SMap *)

CounterArms ==
    <<<<<<"A", "n", "o", "n", "H", "u", "g", "e", "P", "a", "g", "e", "s">>, "anon_huge_pages">>,
      <<<<"A", "n", "o", "n", "y", "m", "o", "u", "s">>, "anonymous">>,
      <<<<"F", "i", "l", "e", "P", "m", "d", "M", "a", "p", "p", "e", "d">>, "file_pmd_mapped">>,
      <<<<"K", "S", "M">>, "ksm">>,
      <<<<"K", "e", "r", "n", "e", "l", "P", "a", "g", "e", "S", "i", "z", "e">>, "kernel_page_size">>,
      <<<<"L", "a", "z", "y", "F", "r", "e", "e">>, "lazy_free">>,
      <<<<"L", "o", "c", "k", "e", "d">>, "locked">>,
      <<<<"M", "M", "U", "P", "a", "g", "e", "S", "i", "z", "e">>, "mmu_page_size">>,
      <<<<"P", "r", "i", "v", "a", "t", "e", "_", "C", "l", "e", "a", "n">>, "private_clean">>,
      <<<<"P", "r", "i", "v", "a", "t", "e", "_", "D", "i", "r", "t", "y">>, "private_dirty">>,
      <<<<"P", "r", "i", "v", "a", "t", "e", "_", "H", "u", "g", "e", "t", "l", "b">>, "private_hugetlb">>,
      <<<<"P", "r", "o", "t", "e", "c", "t", "i", "o", "n", "K", "e", "y">>, "protection_key">>,
      <<<<"P", "s", "s">>, "pss">>,
      <<<<"P", "s", "s", "_", "D", "i", "r", "t", "y">>, "pss_dirty">>,
      <<<<"R", "e", "f", "e", "r", "e", "n", "c", "e", "d">>, "referenced">>,
      <<<<"R", "s", "s">>, "rss">>,
      <<<<"S", "h", "a", "r", "e", "d", "_", "C", "l", "e", "a", "n">>, "shared_clean">>,
      <<<<"S", "h", "a", "r", "e", "d", "_", "D", "i", "r", "t", "y">>, "shared_dirty">>,
      <<<<"S", "h", "a", "r", "e", "d", "_", "H", "u", "g", "e", "t", "l", "b">>, "shared_hugetlb">>,
      <<<<"S", "h", "m", "e", "m", "H", "u", "g", "e", "P", "a", "g", "e", "s">>, "shmem_huge_pages">>,
      <<<<"S", "h", "m", "e", "m", "P", "m", "d", "M", "a", "p", "p", "e", "d">>, "shmem_pmd_mapped">>,
      <<<<"S", "i", "z", "e">>, "size">>,
      <<<<"S", "w", "a", "p">>, "swap">>,
      <<<<"S", "w", "a", "p", "P", "s", "s">>, "swap_pss">>,
      <<<<"T", "H", "P", "e", "l", "i", "g", "i", "b", "l", "e">>, "thp_eligible">>>>

CounterNames == ArmFields(CounterArms)

SMapDefault ==
    [mapping |-> MappingDefault,
     counters |-> [f \in CounterNames |-> U64Zero],
     vm_flags |-> VmFlagsDefault]

VmFlagsKey == <<"V", "m", "F", "l", "a", "g", "s">>
VmFlagsPrefix == <<"V", "m", "F", "l", "a", "g", "s", ":">>
kB == <<"k", "B">>

\* What one iteration of the for loop of from_lines does:
\*   "continue" (with the record after it), "return" (None) or "panic"
\* (the overflowing multiplication of a build with overflow checks; without
\* them the product wraps).
Continue(r) == [kind |-> "continue", res |-> r]
ReturnNone(r) == [kind |-> "return", res |-> r]
Panic(r) == [kind |-> "panic", res |-> r]

\* CounterArm, but the record is built anew around the counter
CounterArm_rebuilt(r, field, numeric_value) ==
    IF field = "_" THEN Continue(r)
    ELSE Continue([SMapDefault EXCEPT !.mapping = r.mapping,
                                      !.counters[field] = numeric_value])

\* match key { ... }: the counter of the key is set, an unknown key changes nothing
CounterArm(r, field, numeric_value) ==
    IF field = "_" THEN Continue(r)
    ELSE Continue([r EXCEPT !.counters[field] = numeric_value])

\* value.parse::<u64>().ok()? * multiplier, product being the 64 low bits of
\* the product and what overflowed
Multiplied(r, key, product, checks) ==
    IF product.carry # 0 /\ checks THEN Panic(r)
    ELSE CounterArm(r, MatchArm(CounterArms, key), product.val)

Parsed(r, key, parsed, multiplier, checks) ==
    IF parsed = None THEN ReturnNone(r)
    ELSE Multiplied(r, key, MulAdd(Unwrap(parsed), multiplier, 0), checks)

\* let last = value.chars().last()?; if !last.is_digit(10) { return None; }
NumericValue(r, key, value, multiplier, checks) ==
    IF value = <<>> THEN ReturnNone(r)
    ELSE IF ~is_digit(value[Len(value)]) THEN ReturnNone(r)
    ELSE Parsed(r, key, u64_from_str_radix(value, 10), multiplier, checks)

\* if value.ends_with("kB") { multiplier *= 1024; value = value[..len - 2].trim(); }
Suffixed(r, key, value, checks) ==
    IF ends_with(value, kB)
    THEN NumericValue(r, key, trim(SubSeq(value, 1, Len(value) - 2)), 1024, checks)
    ELSE NumericValue(r, key, value, 1, checks)

\* KeyValue, but only a line with no colon is skipped
KeyValue_at_least_two(r, line, key_value, checks) ==
    IF Len(key_value) < 2 THEN Continue(r)
    ELSE IF key_value[1] = VmFlagsKey
         THEN Continue([r EXCEPT !.vm_flags =
                  VmFlags_from_str(SubSeq(line, Len(VmFlagsPrefix) + 1, Len(line)))])
    ELSE Suffixed(r, key_value[1], trim(key_value[2]), checks)

\* let key_value = line.split(":").collect(); if key_value.len() != 2 { continue; }
\* if key == "VmFlags" { res.vm_flags = VmFlags::from_str(&line["VmFlags:".len()..]); }
KeyValue(r, line, key_value, checks) ==
    IF Len(key_value) # 2 THEN Continue(r)
    ELSE IF key_value[1] = VmFlagsKey
         THEN Continue([r EXCEPT !.vm_flags =
                  VmFlags_from_str(SubSeq(line, Len(VmFlagsPrefix) + 1, Len(line)))])
    ELSE Suffixed(r, key_value[1], trim(key_value[2]), checks)

from_lines_body(r, line, checks) == KeyValue(r, line, split(line, ":"), checks)

\* The for loop from its k-th line on
RECURSIVE from_lines_loop(_, _, _, _)
from_lines_next(o, ls, k, checks) ==
    IF o.kind = "continue" THEN from_lines_loop(o.res, ls, k + 1, checks)
    ELSE IF o.kind = "return" THEN [kind |-> "return", value |-> None]
    ELSE [kind |-> "panic", value |-> None]

from_lines_loop(r, ls, k, checks) ==
    IF k > Len(ls) THEN [kind |-> "return", value |-> Some(r)]
    ELSE from_lines_next(from_lines_body(r, ls[k], checks), ls, k, checks)

\* SMap::from_lines: [kind |-> "return", value |-> Option<SMap>], or
\* [kind |-> "panic", value |-> None] when the call does not return
SMap_from_lines(mapping, ls, checks) ==
    from_lines_loop([SMapDefault EXCEPT !.mapping = mapping], ls, 1, checks)

----------------------------------------------------------------------------
(* Inputs *)

MaxLines == 3

\* Header lines: with a pathname, and with none and a trailing blank
HeaderLines ==
    {<<"0", "0", "e", "2", "-", "0", "1", "1", "f", " ", "r", "w", "-", "p", " ", "0", "0", " ", "0", "0", ":", "0", "0", " ", "0", " ", " ", " ", "[", "h", "e", "a", "p", "]">>,
     <<"3", "5", "b", "1", "-", "3", "5", "b", "2", " ", "r", "-", "x", "s", " ", "a", "b", "c", "d", " ", "f", "f", ":", "1", "0", " ", "7", " ">>}

\* Detail lines: a counter in kB, a value that is no number, a VmFlags line,
\* the blank line a final "\n" leaves, a counter whose product with 1024
\* is 2^64, and an unknown key
DetailLines ==
    {<<"S", "i", "z", "e", ":", " ", " ", " ", " ", "4", " ", "k", "B">>,
     <<"R", "s", "s", ":", " ", "1", "x", " ", "k", "B">>,
     <<"V", "m", "F", "l", "a", "g", "s", ":", " ", "r", "d", " ", "w", "r", " ">>,
     <<>>,
     <<"S", "w", "a", "p", ":", " ", "1", "8", "0", "1", "4", "3", "9", "8", "5", "0", "9", "4", "8", "1", "9", "8", "4", " ", "k", "B">>,
     <<"F", "o", "o", ":", " ", "1", "2">>}

InputLines == HeaderLines \cup DetailLines

SeqsUpTo(S, n) == UNION {[1..m -> S] : m \in 1..n}

RECURSIVE join(_, _)
join(ls, sep) ==
    IF Len(ls) = 1 THEN ls[1]
    ELSE ls[1] \o <<sep>> \o join(Tail(ls), sep)

----------------------------------------------------------------------------
(* from_str, one action per step of its loops *)

from_str_idle ==
    /\ raw = <<>> /\ lines = <<>> /\ i = 0 /\ smap_lines = <<>>
    /\ map = MappingDefault /\ res = <<>> /\ pc = "idle" /\ ret = None

from_lines_idle ==
    /\ fl_mapping = MappingDefault /\ fl_lines = <<>> /\ fl_k = 0
    /\ fl_res = SMapDefault /\ fl_pc = "idle"

vmflags_idle ==
    /\ vf_s = <<>> /\ vf_tokens = <<>> /\ vf_k = 0
    /\ vf_flags = VmFlagsDefault /\ vf_pc = "idle"

mapping_idle ==
    /\ m_fields = <<>> /\ m_s = <<>> /\ m_out = None /\ m_pc = "idle"

Init ==
    /\ overflow_checks \in BOOLEAN
    /\ \E ls \in SeqsUpTo(InputLines, MaxLines) : raw = join(ls, "\n")
    /\ lines = <<>> /\ i = 0 /\ smap_lines = <<>>
    /\ map = MappingDefault /\ res = <<>> /\ pc = "split" /\ ret = None
    /\ from_lines_idle /\ vmflags_idle /\ mapping_idle

others_unchanged ==
    UNCHANGED <<overflow_checks, raw, from_lines_vars, vmflags_vars, mapping_vars>>

\* let lines = input.split("\n").collect(); let mut i = 0;
Split ==
    /\ pc = "split"
    /\ lines' = split(raw, "\n")
    /\ i' = 0
    /\ res' = <<>>
    /\ pc' = "while"
    /\ UNCHANGED <<smap_lines, map, ret>>
    /\ others_unchanged

\* while i < lines.len() { if let Some(map) = Mapping::from_str(lines[i]) { i += 1;
Header ==
    /\ pc = "while"
    /\ i < Len(lines)
    /\ IsSome(Mapping_from_str(lines[i + 1]))
    /\ map' = Unwrap(Mapping_from_str(lines[i + 1]))
    /\ smap_lines' = <<>>
    /\ i' = i + 1
    /\ pc' = "collect"
    /\ UNCHANGED <<lines, res, ret>>
    /\ others_unchanged

\* BadHeader, but the line is skipped
BadHeader_skip ==
    /\ pc = "while"
    /\ i < Len(lines)
    /\ Mapping_from_str(lines[i + 1]) = None
    /\ i' = i + 1
    /\ UNCHANGED <<lines, smap_lines, map, res, pc, ret>>
    /\ others_unchanged

\* } else { return None; }
BadHeader ==
    /\ pc = "while"
    /\ i < Len(lines)
    /\ Mapping_from_str(lines[i + 1]) = None
    /\ ret' = None
    /\ pc' = "return_394"
    /\ UNCHANGED <<lines, i, smap_lines, map, res>>
    /\ others_unchanged

\* Collect, but the line is not pushed
Collect_no_push ==
    /\ pc = "collect"
    /\ i < Len(lines)
    /\ Mapping_from_str(lines[i + 1]) = None
    /\ i' = i + 1
    /\ UNCHANGED <<lines, smap_lines, map, res, pc, ret>>
    /\ others_unchanged

\* while i < lines.len() && Mapping::from_str(lines[i]).is_none() { push; i += 1; }
Collect ==
    /\ pc = "collect"
    /\ i < Len(lines)
    /\ Mapping_from_str(lines[i + 1]) = None
    /\ smap_lines' = Append(smap_lines, lines[i + 1])
    /\ i' = i + 1
    /\ UNCHANGED <<lines, map, res, pc, ret>>
    /\ others_unchanged

\* EndCollect, but the inner loop may stop at any line
EndCollect_early ==
    /\ pc = "collect"
    /\ pc' = "push"
    /\ UNCHANGED <<lines, i, smap_lines, map, res, ret>>
    /\ others_unchanged

EndCollect ==
    /\ pc = "collect"
    /\ ~(i < Len(lines) /\ Mapping_from_str(lines[i + 1]) = None)
    /\ pc' = "push"
    /\ UNCHANGED <<lines, i, smap_lines, map, res, ret>>
    /\ others_unchanged

\* res.push(SMap::from_lines(map, smap_lines)?): the record is pushed
Push ==
    /\ pc = "push"
    /\ LET o == SMap_from_lines(map, smap_lines, overflow_checks)
       IN  /\ o.kind = "return"
           /\ IsSome(o.value)
           /\ res' = Append(res, Unwrap(o.value))
    /\ pc' = "while"
    /\ UNCHANGED <<lines, i, smap_lines, map, ret>>
    /\ others_unchanged

\* ... the ? returns None
PushNone ==
    /\ pc = "push"
    /\ LET o == SMap_from_lines(map, smap_lines, overflow_checks)
       IN  o.kind = "return" /\ o.value = None
    /\ ret' = None
    /\ pc' = "return_392"
    /\ UNCHANGED <<lines, i, smap_lines, map, res>>
    /\ others_unchanged

\* ... SMap::from_lines panics: from_str unwinds and returns nothing
PushPanic ==
    /\ pc = "push"
    /\ SMap_from_lines(map, smap_lines, overflow_checks).kind = "panic"
    /\ pc' = "panic"
    /\ UNCHANGED <<lines, i, smap_lines, map, res, ret>>
    /\ others_unchanged

\* Some(res)
ReturnSome ==
    /\ pc = "while"
    /\ ~(i < Len(lines))
    /\ ret' = Some(res)
    /\ pc' = "return_397"
    /\ UNCHANGED <<lines, i, smap_lines, map, res>>
    /\ others_unchanged

Next ==
    \/ Split
    \/ Header
    \/ BadHeader
    \/ Collect
    \/ EndCollect
    \/ Push
    \/ PushNone
    \/ PushPanic
    \/ ReturnSome

Spec == Init /\ [][Next]_vars

----------------------------------------------------------------------------
(* from_str: the claims *)

Returned == pc \in {"return_392", "return_394", "return_397"}
Finished == Returned \/ pc = "panic"

\* The text of raw before its first "\n"
FirstLine(text) ==
    SubSeq(text, 1, (CHOOSE q \in 1..(Len(text) + 1) :
                        /\ \A r \in 1..(q - 1) : text[r] # "\n"
                        /\ (q = Len(text) + 1 \/ text[q] = "\n")) - 1)

IsHeader(line) == IsSome(Mapping_from_str(line))

\* The k-th smallest element of a set of numbers
NthOf(S, k) == CHOOSE j \in S : Cardinality({x \in S : x < j}) = k - 1

\* The record the block of the k-th header in hdrs (the positions of the
\* header lines of ls) should give
RecordOfBlock(ls, hdrs, k, checks) ==
    SMap_from_lines(Unwrap(Mapping_from_str(ls[NthOf(hdrs, k)])),
                    SubSeq(ls, NthOf(hdrs, k) + 1,
                           IF k = Cardinality(hdrs) THEN Len(ls) ELSE NthOf(hdrs, k + 1) - 1),
                    checks)

RecordsOfBlocks(out, ls, hdrs, checks) ==
    /\ Len(out) = Cardinality(hdrs)
    /\ \A k \in 1..Len(out) :
          /\ out[k].mapping = Unwrap(Mapping_from_str(ls[NthOf(hdrs, k)]))
          /\ RecordOfBlock(ls, hdrs, k, checks) = [kind |-> "return", value |-> Some(out[k])]

\* C1: when from_str succeeds, the sequence it returns has one record per line
\* of the text that parses as a mapping header, in the order of those lines;
\* the k-th record has the mapping of the k-th header line and the statistics
\* SMap::from_lines gives for the lines strictly between that header line and
\* the next one (or the end of the text).
C1_OneRecordPerHeader ==
    pc = "return_397" =>
        /\ IsSome(ret)
        /\ RecordsOfBlocks(Unwrap(ret), split(raw, "\n"),
                           {j \in 1..Len(split(raw, "\n")) : IsHeader(split(raw, "\n")[j])},
                           overflow_checks)

\* Two records, the first with a detail block of one line that sets a counter
C1_Witness ==
    /\ pc = "return_397"
    /\ Len(Unwrap(ret)) = 2
    /\ Len(lines) = 3
    /\ ~IsHeader(lines[2])
    /\ Unwrap(ret)[1].counters.size # U64Zero

\* A line that splits on ":" into exactly a key and a value, the key not
\* VmFlags, whose trimmed value, a final kB removed, does not end in a digit
OneColon(line) == Cardinality({j \in 1..Len(line) : line[j] = ":"}) = 1
ColonAt(line) == CHOOSE j \in 1..Len(line) : line[j] = ":"
KeyOf(line) == SubSeq(line, 1, ColonAt(line) - 1)
ValueOf(line) == trim(SubSeq(line, ColonAt(line) + 1, Len(line)))
Number(value) == IF ends_with(value, kB) THEN trim(SubSeq(value, 1, Len(value) - 2)) ELSE value
EndsInDigit(value) == value # <<>> /\ value[Len(value)] \in {AsciiDigits[j] : j \in 1..10}

BadValueLine(line) ==
    /\ OneColon(line)
    /\ KeyOf(line) # VmFlagsKey
    /\ ~EndsInDigit(Number(ValueOf(line)))

\* C3: when a detail line of any mapping of the input has a value that does
\* not end in a decimal digit, from_str returns None: it returns, and what it
\* returns is no sequence of records.
C3_BadValueReturnsNone ==
    (/\ Finished
     /\ \E j \in 2..Len(lines) : ~IsHeader(lines[j]) /\ BadValueLine(lines[j]))
        => (Returned /\ ret = None)

\* C5: when the first line of the text does not parse as a mapping header,
\* from_str returns None whatever the other lines are; so it does for the
\* empty text.
C5_BadFirstLineReturnsNone ==
    (Finished /\ (raw = <<>> \/ ~IsHeader(FirstLine(raw))))
        => (pc = "return_394" /\ ret = None)

\* The first line is a detail line and a header line follows it
C5_Witness ==
    /\ pc = "return_394"
    /\ Len(lines) = 3
    /\ RE_captures(trim(lines[1])) = None
    /\ IsHeader(lines[2])

\* C10: the outer loop is entered at a line after the first only when that
\* line is a header line; so the return of None for a bad header is taken at
\* line 0 only, a failure after a valid first line comes from a detail block,
\* and a sequence that is returned holds at least one record.
C10_OuterLoopAtHeaders ==
    /\ (pc = "while" /\ 0 < i /\ i < Len(lines)) => IsHeader(lines[i + 1])
    /\ pc = "return_394" => i = 0
    /\ (Finished /\ IsHeader(lines[1]) /\ pc # "return_397") => pc \in {"return_392", "panic"}
    /\ pc = "return_397" => Len(Unwrap(ret)) >= 1

\* The outer loop is entered again, at a later header line
C10_Witness == pc = "while" /\ 0 < i /\ i < Len(lines)

----------------------------------------------------------------------------
(* SMap::from_lines on its own, one action per iteration of its for loop *)

MaxBlock == 2

\* Counter lines: key ":" blanks digits suffix
CounterLine(key, digits, suffix) == key \o <<":", " ", " ">> \o digits \o suffix

NoSuffix == <<>>
KBSuffix == <<" ", "k", "B">>

SizeKey == <<"S", "i", "z", "e">>
SwapKey == <<"S", "w", "a", "p">>

\* 4, 2^54 (whose product with 1024 is 2^64), 2^64 - 1 and 2^64
Four == <<"4">>
TwoTo54 == <<"1", "8", "0", "1", "4", "3", "9", "8", "5", "0", "9", "4", "8", "1", "9", "8", "4">>
U64Max == <<"1", "8", "4", "4", "6", "7", "4", "4", "0", "7", "3", "7", "0", "9", "5", "5", "1", "6", "1", "5">>
TwoTo64 == <<"1", "8", "4", "4", "6", "7", "4", "4", "0", "7", "3", "7", "0", "9", "5", "5", "1", "6", "1", "6">>

CounterLines ==
    {CounterLine(key, Four, suffix) : key \in {SizeKey, SwapKey}, suffix \in {NoSuffix, KBSuffix}}
    \cup {CounterLine(SizeKey, digits, suffix) :
              digits \in {TwoTo54, U64Max, TwoTo64}, suffix \in {NoSuffix, KBSuffix}}

\* Unknown keys with a number and with a word, a known key with a value that
\* is no number, VmFlags lines, and lines that do not split in two: a blank
\* line, a line with no colon, lines with two
OtherLines ==
    {<<"F", "o", "o", ":", " ", "1", "2", " ", "k", "B">>,
     <<"F", "o", "o", ":", " ", "b", "a", "r">>,
     <<"R", "s", "s", ":", " ", "1", "x", " ", "k", "B">>,
     <<"V", "m", "F", "l", "a", "g", "s", ":", " ", "r", "d", " ", "w", "r", " ">>,
     <<"V", "m", "F", "l", "a", "g", "s", ":", " ">>,
     <<>>,
     <<"P", "s", "s", " ", "5">>,
     <<"S", "i", "z", "e", ":", " ", "1", ":", "2">>,
     <<"V", "m", "F", "l", "a", "g", "s", ":", " ", "r", "d", ":", "w", "r">>}

BlockLines == CounterLines \cup OtherLines

HeapMapping == Unwrap(Mapping_from_str(<<"0", "0", "e", "2", "-", "0", "1", "1", "f", " ", "r", "w", "-", "p", " ", "0", "0", " ", "0", "0", ":", "0", "0", " ", "0", " ", " ", " ", "[", "h", "e", "a", "p", "]">>))

InitLines ==
    /\ overflow_checks \in BOOLEAN
    /\ fl_mapping = HeapMapping
    /\ fl_lines \in {<<>>} \cup SeqsUpTo(BlockLines, MaxBlock)
    /\ fl_k = 0
    /\ fl_res = SMapDefault
    /\ fl_pc = "begin"
    /\ from_str_idle /\ vmflags_idle /\ mapping_idle

lines_others_unchanged ==
    UNCHANGED <<overflow_checks, from_str_vars, vmflags_vars, mapping_vars>>

\* let mut res: SMap = Default::default(); res.mapping = mapping;
FlBegin ==
    /\ fl_pc = "begin"
    /\ fl_res' = [SMapDefault EXCEPT !.mapping = fl_mapping]
    /\ fl_pc' = "for"
    /\ UNCHANGED <<fl_mapping, fl_lines, fl_k>>
    /\ lines_others_unchanged

\* An iteration that ends in the next one (continue, or the end of the body)
FlContinue ==
    /\ fl_pc = "for"
    /\ fl_k < Len(fl_lines)
    /\ LET o == from_lines_body(fl_res, fl_lines[fl_k + 1], overflow_checks)
       IN  o.kind = "continue" /\ fl_res' = o.res
    /\ fl_k' = fl_k + 1
    /\ UNCHANGED <<fl_mapping, fl_lines, fl_pc>>
    /\ lines_others_unchanged

\* An iteration that returns None
FlReturnNone ==
    /\ fl_pc = "for"
    /\ fl_k < Len(fl_lines)
    /\ from_lines_body(fl_res, fl_lines[fl_k + 1], overflow_checks).kind = "return"
    /\ fl_pc' = "return_none"
    /\ UNCHANGED <<fl_mapping, fl_lines, fl_k, fl_res>>
    /\ lines_others_unchanged

\* An iteration whose multiplication overflows in a build with overflow checks
FlPanic ==
    /\ fl_pc = "for"
    /\ fl_k < Len(fl_lines)
    /\ from_lines_body(fl_res, fl_lines[fl_k + 1], overflow_checks).kind = "panic"
    /\ fl_pc' = "panic"
    /\ UNCHANGED <<fl_mapping, fl_lines, fl_k, fl_res>>
    /\ lines_others_unchanged

\* Some(res)
FlReturnSome ==
    /\ fl_pc = "for"
    /\ fl_k = Len(fl_lines)
    /\ fl_pc' = "return_some"
    /\ UNCHANGED <<fl_mapping, fl_lines, fl_k, fl_res>>
    /\ lines_others_unchanged

NextLines ==
    \/ FlBegin
    \/ FlContinue
    \/ FlReturnNone
    \/ FlPanic
    \/ FlReturnSome

SpecLines == InitLines /\ [][NextLines]_vars

----------------------------------------------------------------------------
(* SMap::from_lines: the claims *)

FlFinished == fl_pc \in {"return_some", "return_none", "panic"}

\* What the call, once finished, has returned
FlOutcome ==
    IF fl_pc = "return_some" THEN [kind |-> "return", value |-> Some(fl_res)]
    ELSE IF fl_pc = "return_none" THEN [kind |-> "return", value |-> None]
    ELSE [kind |-> "panic", value |-> None]

RemoveAt(ls, j) == SubSeq(ls, 1, j - 1) \o SubSeq(ls, j + 1, Len(ls))

RecognizedKeys == {CounterArms[j][1] : j \in 1..Len(CounterArms)}

\* A line that splits in a key and a value, the key neither a counter key nor VmFlags
UnknownKeyLine(line) ==
    /\ OneColon(line)
    /\ KeyOf(line) \notin RecognizedKeys \cup {VmFlagsKey}

\* C2: a detail line with an unrecognized key, whatever its value, is ignored:
\* SMap::from_lines returns for a block with such a line what it returns for
\* the block without that line.
C2_UnknownKeyIgnored ==
    FlFinished =>
        \A j \in 1..Len(fl_lines) :
            UnknownKeyLine(fl_lines[j]) =>
                FlOutcome = SMap_from_lines(fl_mapping, RemoveAt(fl_lines, j), overflow_checks)

\* A natural number of any size: its base-65536 digits, least significant
\* first, the most significant one not 0
RECURSIVE NatMulAdd(_, _, _)
NatMulAdd(x, m, a) ==
    IF x = <<>> THEN (IF a = 0 THEN <<>> ELSE <<a>>)
    ELSE <<(x[1] * m + a) % Base>> \o NatMulAdd(Tail(x), m, (x[1] * m + a) \div Base)

RECURSIVE NatOfDigits(_, _)
NatOfDigits(digits, acc) ==
    IF digits = <<>> THEN acc
    ELSE NatOfDigits(Tail(digits), NatMulAdd(acc, 10, IndexOf(Head(digits), AsciiDigits) - 1))

NatOfU64(x) == SubSeq(x, 1, CHOOSE n \in 0..4 : (n = 0 \/ x[n] # 0) /\ \A k \in (n + 1)..4 : x[k] = 0)

FitsU64(digits) == Len(NatOfDigits(digits, <<>>)) <= 4

\* The number of bytes a counter line states: 1024 * n with the kB suffix, n without
BytesOf(digits, suffix) ==
    IF suffix = KBSuffix THEN NatMulAdd(NatOfDigits(digits, <<>>), 1024, 0)
    ELSE NatOfDigits(digits, <<>>)

\* C4: a detail line with a recognized counter key and a value n that fits in
\* a u64 is processed, and the counter it stores is exactly 1024 * n with the
\* kB suffix and exactly n without, also when 1024 * n is 2^64 or more.
C4_ExactByteCount ==
    \A j \in 1..Len(CounterArms), digits \in {Four, TwoTo54, U64Max, TwoTo64},
       suffix \in {NoSuffix, KBSuffix} :
        FitsU64(digits) =>
            /\ (/\ fl_pc \in {"return_none", "panic"}
                /\ fl_lines[fl_k + 1] = CounterLine(CounterArms[j][1], digits, suffix))
                   => FALSE
            /\ (/\ fl_pc = "for" /\ fl_k >= 1
                /\ fl_lines[fl_k] = CounterLine(CounterArms[j][1], digits, suffix))
                   => NatOfU64(fl_res.counters[CounterArms[j][2]]) = BytesOf(digits, suffix)

\* C6: a detail line that does not split on ":" into exactly two parts is
\* skipped: SMap::from_lines returns for a block with such a line what it
\* returns for the block without that line, whatever the key of the line.
C6_UnsplittableLineSkipped ==
    FlFinished =>
        \A j \in 1..Len(fl_lines) :
            ~OneColon(fl_lines[j]) =>
                FlOutcome = SMap_from_lines(fl_mapping, RemoveAt(fl_lines, j), overflow_checks)

\* A record is returned for a block of a counter line and a line with two colons
C6_Witness ==
    /\ fl_pc = "return_some"
    /\ Len(fl_lines) = 2
    /\ Cardinality({j \in 1..Len(fl_lines[2]) : fl_lines[2][j] = ":"}) = 2
    /\ fl_res.counters.swap # U64Zero

StartsWith(line, prefix) ==
    Len(line) >= Len(prefix) /\ SubSeq(line, 1, Len(prefix)) = prefix

RecognizedKeyLine(line) == OneColon(line) /\ KeyOf(line) \in RecognizedKeys

FieldOf(key) == CounterArms[CHOOSE j \in 1..Len(CounterArms) : CounterArms[j][1] = key][2]

\* C9, the counters no line names: in a record that is returned, a counter
\* whose key occurs in no line of the block is zero
C9_AbsentKeysAreZero ==
    fl_pc = "return_some" =>
        \A j \in 1..Len(CounterArms) :
            (\A k \in 1..Len(fl_lines) : ~StartsWith(fl_lines[k], Append(CounterArms[j][1], ":")))
                => fl_res.counters[CounterArms[j][2]] = U64Zero

\* C9, the frame of a line with a recognized counter key: processing it
\* changes that key's counter only
C9_OnlyItsCounterChanges ==
    (fl_pc = "for" /\ fl_k' = fl_k + 1 /\ RecognizedKeyLine(fl_lines[fl_k + 1])) =>
        /\ \A f \in CounterNames \ {FieldOf(KeyOf(fl_lines[fl_k + 1]))} :
               fl_res'.counters[f] = fl_res.counters[f]
        /\ fl_res'.vm_flags = fl_res.vm_flags
        /\ fl_res'.mapping = fl_res.mapping

\* C9: in every record SMap::from_lines returns, each of the 25 counters whose
\* key occurs in no line of the block is zero; and processing a line with a
\* recognized counter key changes only that key's counter, leaving the other
\* counters, the VM flag set and the mapping as they were.
C9_CountersDefaultAndFrame ==
    /\ [](C9_AbsentKeysAreZero)
    /\ [][C9_OnlyItsCounterChanges]_vars

\* A record is returned for a VmFlags line followed by a Swap line: swap is
\* set, size is not, and the flags are those of the first line
C9_Witness ==
    /\ fl_pc = "return_some"
    /\ Len(fl_lines) = 2
    /\ fl_res.vm_flags.rd
    /\ RecognizedKeyLine(fl_lines[2])
    /\ fl_res.counters.swap # U64Zero
    /\ fl_res.counters.size = U64Zero

----------------------------------------------------------------------------
(* VmFlags::from_str on its own, one action per iteration of its for loop *)

MaxTokens == 3

\* Three mnemonics, a token that is none, and the empty token
FlagTokens == {<<"r", "d">>, <<"d", "e">>, <<"u", "w">>, <<"z", "z">>, <<>>}

FlagTokenSeqs == SeqsUpTo(FlagTokens, MaxTokens)

InitFlags ==
    /\ overflow_checks = FALSE
    /\ \E toks \in FlagTokenSeqs : vf_s = join(toks, " ")
    /\ vf_tokens = <<>> /\ vf_k = 0 /\ vf_flags = VmFlagsDefault /\ vf_pc = "begin"
    /\ from_str_idle /\ from_lines_idle /\ mapping_idle

flags_others_unchanged ==
    UNCHANGED <<overflow_checks, from_str_vars, from_lines_vars, mapping_vars>>

\* let mut flags: VmFlags = Default::default(); for flag in s.split(" ")
VfSplit ==
    /\ vf_pc = "begin"
    /\ vf_flags' = VmFlagsDefault
    /\ vf_tokens' = split(vf_s, " ")
    /\ vf_k' = 0
    /\ vf_pc' = "for"
    /\ UNCHANGED vf_s
    /\ flags_others_unchanged

\* match flag { ... }
VfToken ==
    /\ vf_pc = "for"
    /\ vf_k < Len(vf_tokens)
    /\ vf_flags' = VmFlagsArm(vf_flags, vf_tokens[vf_k + 1])
    /\ vf_k' = vf_k + 1
    /\ UNCHANGED <<vf_s, vf_tokens, vf_pc>>
    /\ flags_others_unchanged

\* flags
VfReturn ==
    /\ vf_pc = "for"
    /\ vf_k = Len(vf_tokens)
    /\ vf_pc' = "return"
    /\ UNCHANGED <<vf_s, vf_tokens, vf_k, vf_flags>>
    /\ flags_others_unchanged

NextFlags ==
    \/ VfSplit
    \/ VfToken
    \/ VfReturn

SpecFlags == InitFlags /\ [][NextFlags]_vars

Mnemonics == {VmFlagArms[j][1] : j \in 1..Len(VmFlagArms)}

TokensOf(toks) == {toks[k] : k \in 1..Len(toks)}

\* C7: the flag set VmFlags::from_str decodes has a flag true exactly when its
\* mnemonic is one of the space-separated tokens of the string; and two
\* strings whose tokens hold the same known mnemonics decode to the same flag
\* set, whatever the order of the tokens, their repetitions, and the unknown
\* and empty tokens among them.
C7_FlagsAreTheMnemonicsPresent ==
    vf_pc = "return" =>
        \A toks \in FlagTokenSeqs :
            /\ vf_s = join(toks, " ") =>
                   \A j \in 1..Len(VmFlagArms) :
                       vf_flags[VmFlagArms[j][2]] = (VmFlagArms[j][1] \in TokensOf(toks))
            /\ TokensOf(toks) \cap Mnemonics = TokensOf(vf_tokens) \cap Mnemonics =>
                   VmFlags_from_str(join(toks, " ")) = vf_flags

\* "rd zz rd": a mnemonic twice, around an unknown token
C7_Witness ==
    /\ vf_pc = "return"
    /\ vf_s = <<"r", "d", " ", "z", "z", " ", "r", "d">>
    /\ vf_flags.rd

----------------------------------------------------------------------------
(* Mapping::from_str on its own *)

\* The pieces a line is written from.  Each set holds well-formed pieces and
\* pieces that are not: an upper-case digit, 17 hexadecimal digits, no dash,
\* a character that is no permission, no major number, an inode of 2^64, an
\* inode that is a digit but not an ASCII one, a pathname with no blank
\* before it.
Leads == {<<>>, <<" ">>}
Starts == {<<"0", "0", "e", "2">>, <<"f", "f", "f", "f", "f", "f", "f", "f", "f", "f", "f", "f", "f", "f", "f", "f">>, <<"1", "0", "0", "0", "0", "0", "0", "0", "0", "0", "0", "0", "0", "0", "0", "0", "0">>, <<"0", "E">>}
Dashes == {<<"-">>, <<>>}
Ends == {<<"0", "1", "1", "f">>}
Blanks == {<<" ">>, <<"\t", " ">>}
Perms == {<<"r", "w", "-", "p">>, <<"r", "-", "x", "s">>, <<"r", "w", "z">>}
Offsets == {<<"a", "b", "c", "d">>, <<"1", "0", "0", "0", "0", "0", "0", "0", "0", "0", "0", "0", "0", "0", "0", "0", "0">>}
Majors == {<<"f", "f">>, <<>>}
Minors == {<<"1", "0">>}
Inodes == {<<"0">>, U64Max, TwoTo64, <<"<U+0663>">>}
\* What follows the inode: blanks, a pathname, blanks
Tails ==
    {<<<<>>, <<>>, <<>>>>,
     <<<<" ">>, <<>>, <<>>>>,
     <<<<" ", " ", " ">>, <<"[", "h", "e", "a", "p", "]">>, <<>>>>,
     <<<<" ">>, <<"/", "a", " ", "b">>, <<" ">>>>,
     <<<<>>, <<"x">>, <<>>>>}

HeaderFields ==
    [lead : Leads, start : Starts, dash : Dashes, end : Ends, blank : Blanks,
     perms : Perms, offset : Offsets, major : Majors, minor : Minors,
     inode : Inodes, tail : Tails]

HeaderText(f) ==
    f.lead \o f.start \o f.dash \o f.end \o f.blank \o f.perms \o <<" ">> \o f.offset
    \o f.blank \o f.major \o <<":">> \o f.minor \o <<" ">> \o f.inode
    \o f.tail[1] \o f.tail[2] \o f.tail[3]

InitMapping ==
    /\ overflow_checks = FALSE
    /\ m_fields \in HeaderFields
    /\ m_s = HeaderText(m_fields)
    /\ m_out = None
    /\ m_pc = "call"
    /\ from_str_idle /\ from_lines_idle /\ vmflags_idle

MCall ==
    /\ m_pc = "call"
    /\ m_out' = Mapping_from_str(m_s)
    /\ m_pc' = "return"
    /\ UNCHANGED <<m_fields, m_s>>
    /\ UNCHANGED <<overflow_checks, from_str_vars, from_lines_vars, vmflags_vars>>

NextMapping == MCall

SpecMapping == InitMapping /\ [][NextMapping]_vars

AllIn(text, chars) == \A j \in 1..Len(text) : text[j] \in chars

LowerHex == {AsciiDigits[j] : j \in 1..10} \cup {HexLetters[j] : j \in 1..6}
HexField(text) == text # <<>> /\ AllIn(text, LowerHex)

\* The header grammar, on the pieces of the line
MatchesGrammar(f) ==
    /\ HexField(f.start) /\ f.dash = <<"-">> /\ HexField(f.end)
    /\ f.perms # <<>> /\ AllIn(f.perms, {"r", "w", "s", "x", "p", "-"})
    /\ HexField(f.offset) /\ HexField(f.major) /\ HexField(f.minor)
    /\ f.inode # <<>> /\ AllIn(f.inode, {AsciiDigits[j] : j \in 1..10} \cup {"<U+0663>"})
    /\ (f.tail[2] = <<>> \/ f.tail[1] # <<>>)

\* The hexadecimal number of a field, as a natural number of any size: the
\* k-th base-65536 digit is made of the four hexadecimal digits 4k-3..4k
\* counted from the right
HexDigit(text, n) ==
    IF n <= Len(text) THEN IndexOf(text[Len(text) + 1 - n], AsciiDigits \o HexLetters) - 1 ELSE 0

HexLimbs(text) ==
    [k \in 1..((Len(text) + 3) \div 4) |->
        HexDigit(text, 4 * k - 3) + 16 * HexDigit(text, 4 * k - 2)
        + 256 * HexDigit(text, 4 * k - 1) + 4096 * HexDigit(text, 4 * k)]

Normalized(x) ==
    SubSeq(x, 1, CHOOSE n \in 0..Len(x) : (n = 0 \/ x[n] # 0) /\ \A k \in (n + 1)..Len(x) : x[k] = 0)

HexNat(text) == Normalized(HexLimbs(text))

HexConverts(text) == Len(HexNat(text)) <= 4
DecimalConverts(text) == AllIn(text, {AsciiDigits[j] : j \in 1..10}) /\ FitsU64(text)

Converts(f) ==
    /\ HexConverts(f.start) /\ HexConverts(f.end) /\ HexConverts(f.offset)
    /\ HexConverts(f.major) /\ HexConverts(f.minor)
    /\ DecimalConverts(f.inode)

MappingIsOf(m, f) ==
    /\ NatOfU64(m.start) = HexNat(f.start)
    /\ NatOfU64(m.end) = HexNat(f.end)
    /\ NatOfU64(m.offset) = HexNat(f.offset)
    /\ NatOfU64(m.device.major) = HexNat(f.major)
    /\ NatOfU64(m.device.minor) = HexNat(f.minor)
    /\ NatOfU64(m.inode) = NatOfDigits(f.inode, <<>>)
    /\ m.perms = [read |-> "r" \in TokensOf(f.perms), write |-> "w" \in TokensOf(f.perms),
                  execute |-> "x" \in TokensOf(f.perms), shared |-> "s" \in TokensOf(f.perms),
                  private |-> "p" \in TokensOf(f.perms)]
    /\ m.pathname = IF f.tail[2] = <<>> THEN None ELSE Some(f.tail[2])

\* C8: Mapping::from_str returns a mapping exactly when the trimmed line
\* matches the header grammar and every number converts into its integer
\* type; the mapping then holds the hexadecimal values of start, end, offset,
\* major and minor, the decimal value of the inode, the decoding of the
\* permission token, and as pathname what follows the inode, none when
\* nothing does.
C8_MappingOfHeaderLine ==
    m_pc = "return" =>
        /\ IsSome(m_out) = (MatchesGrammar(m_fields) /\ Converts(m_fields))
        /\ IsSome(m_out) => MappingIsOf(Unwrap(m_out), m_fields)

\* A line with a blank before it, a tabulation in it, and a pathname of two
\* words with a blank after it
C8_Witness ==
    /\ m_pc = "return"
    /\ IsSome(m_out)
    /\ m_fields.lead = <<" ">>
    /\ m_fields.blank = <<"\t", " ">>
    /\ m_fields.start = <<"f", "f", "f", "f", "f", "f", "f", "f", "f", "f", "f", "f", "f", "f", "f", "f">>
    /\ Unwrap(m_out).pathname = Some(<<"/", "a", " ", "b">>)

====
